---- MODULE Spec2Model ----
(***************************************************************************)
(* The agreement bot's PolicyManager (src/agreementbot/policy_manager.go): *)
(* the served-policy table, the org -> policy name -> BusinessPolicyEntry  *)
(* cache, and the PolicyChanged / PolicyDeleted messages it sends.         *)
(*                                                                         *)
(* Go maps are partial functions.  A `range` over a Go map visits the keys *)
(* in an unspecified order: every handler takes the orders of its loops as *)
(* parameters, and Next draws them from all permutations.                  *)
(* The Updated time stamps of the entries are left out: nothing reads them.*)
(***************************************************************************)
EXTENDS Integers, Sequences, FiniteSets, TLC

\* ------------------------------------------------------------- universe

\* The served table holds at most MaxTriplets triplets.
MaxTriplets == 2

Orgs == {"o1", "o2"}

PolicyNames == {"p1", "p2"}

WILDCARD == "*"

\* The triplets the exchange may hand out (exchange.ServedBusinessPolicy).
Triplets ==
    { [BusinessPolOrg |-> "o1", BusinessPol |-> "p1",     NodeOrg |-> ""],
      [BusinessPolOrg |-> "o1", BusinessPol |-> "p2",     NodeOrg |-> "n1"],
      [BusinessPolOrg |-> "o1", BusinessPol |-> WILDCARD, NodeOrg |-> "n1"],
      [BusinessPolOrg |-> "o2", BusinessPol |-> WILDCARD, NodeOrg |-> ""] }

\* A served table, map[string]exchange.ServedBusinessPolicy.  The key of a triplet is
\* its exchange id, which names the triplet's three fields: the triplet stands for it.
ServedTables ==
    { [k \in D |-> k] : D \in { S \in SUBSET Triplets : Cardinality(S) <= MaxTriplets } }

\* The exchange ids ("org/name") of the business policies that exist: two in o1,
\* none in o2.
PolicyIds == { <<"o1", "p1">>, <<"o1", "p2">> }

\* The contents a business policy definition can have:
\*   v1, v2     two valid definitions of different content
\*   bad        fails Validate (or the conversion to the internal format)
\*   nohash     cannot be serialized by json.Marshal, so it has no hash
\*   nomarshal  valid, but its internal policy cannot be serialized
Contents == {"v1", "v2", "bad", "nohash", "nomarshal"}

\* The contents the exchange can hold under an id: any for o1/p1, and a valid and an
\* invalid one for o1/p2.
ContentsOf(polId) == IF polId = <<"o1", "p1">> THEN Contents ELSE {"v1", "bad"}

\* The contents that json.Marshal can serialize, as definition and as internal policy.
SerializableContents == {"v1", "v2", "bad"}

\* The definition sets UpdatePolicies can be given for org, with the contents drawn
\* from contents: ids of that org, each with a content the exchange can hold under it.
DefinedPoliciesOf(org, contents) ==
    { definedPolicies \in
          UNION { [D -> contents] : D \in SUBSET { id \in PolicyIds : id[1] = org } } :
        \A polId \in DOMAIN definedPolicies : definedPolicies[polId] \in ContentsOf(polId) }

ServiceIds == {"s1"}

ServicePolicyDefs == {"sv1"}

\* The orders a range over a map with key set S can take.
Orders(S) ==
    { s \in [1..Cardinality(S) -> S] :
        \A i, j \in 1..Cardinality(S) : i # j => s[i] # s[j] }

NoMap == << >>

\* ------------------------------------------------------------- state

VARIABLES
    ServedPolicies,  \* pm.ServedPolicies: triplet id -> triplet
    OrgPolicies,     \* pm.OrgPolicies: org -> (policy name -> BusinessPolicyEntry)
    eventChannel,    \* the messages the most recent call sent on pm.eventChannel, in order
    err,             \* what the most recent call returned: "nil" or an error
    call,            \* the most recent call: its name, its arguments, and the parity n
                     \* of the number of calls made, so that a call that changes
                     \* nothing is a step too
    seen,            \* history, kept by SpecSeen only: per org, the names the last
                     \* UpdatePolicies call for it was given definitions of (defined),
                     \* and the names the served table served at that call (served)
    held,            \* the map a worker holds, got from its last call of
                     \* GetAllBusinessPolicyEntriesForOrg (SpecWorker only): the org
                     \* asked for, the map as it was when returned, whether it still is
                     \* the map inside pm.OrgPolicies (aliased), and its content once it
                     \* no longer is (detached)
    repeated,        \* history, kept by SpecRepeat only: the most recent call had the
                     \* name and the arguments of the call before it
    polMapLock,      \* pm.polMapLock: the thread that holds it, or Free
    spMapLock,       \* pm.spMapLock: the thread that holds it, or Free
    pc,              \* SpecThreads only: where each thread is, "idle" between calls
    frame            \* SpecThreads only: the local variables of the refresh thread's
                     \* call, and the history of the call in progress

\* The variables of the threads.  The other specifications run each call as one
\* step, with both locks free before and after it.
threadVars == <<polMapLock, spMapLock, pc, frame>>

vars == <<ServedPolicies, OrgPolicies, eventChannel, err, call, seen, held, repeated,
          polMapLock, spMapLock, pc, frame>>

\* ------------------------------------------------------------- other packages

\* exchange.GetId: the id without its org prefix.
GetId(polId) == polId[2]

\* json.Marshal of a definition succeeds.
CanHash(pol) == pol # "nohash"

\* BusinessPolicy.Validate and GenPolicyFromBusinessPolicy both succeed.
IsValid(pol) == pol # "bad"

\* BusinessPolicy.GenPolicyFromBusinessPolicy(polId): the internal policy, named polId.
GenPolicyFromBusinessPolicy(pol, polId) == [Name |-> polId, Body |-> pol]

\* policy.MarshalPolicy succeeds.
CanMarshal(p) == p.Body # "nomarshal"

\* policy.MarshalPolicy: the serialized internal policy.
MarshalPolicy(p) == <<"json", p.Name, p.Body>>

\* events.NewPolicyChangedMessage
NewPolicyChangedMessage(name, org, policyString) ==
    [type |-> "CHANGED_POLICY", name |-> name, org |-> org, policy |-> policyString]

\* events.NewPolicyDeletedMessage
NewPolicyDeletedMessage(name, org, policyString) ==
    [type |-> "DELETED_POLICY", name |-> name, org |-> org, policy |-> policyString]

\* ------------------------------------------------------------- entries

\* sha3.Sum256 of the serialized definition (taken to be free of collisions).
hashPolicy(p) == <<"sha3", p>>

NewServicePolicyEntry(p, svcId) ==
    [Policy |-> [Name |-> svcId, Body |-> p], Hash |-> hashPolicy(p)]

\* The entry NewBusinessPolicyEntry returns when it returns no error.
NewBusinessPolicyEntry(pol, polId) ==
    [Policy |-> GenPolicyFromBusinessPolicy(pol, polId),
     Hash |-> hashPolicy(pol),
     ServicePolicies |-> NoMap]

\* NewBusinessPolicyEntry returns an error: the hash, the validation or the
\* conversion failed.
NewBusinessPolicyEntryFails(pol) == ~CanHash(pol) \/ ~IsValid(pol)

\* UpdateEntry gone wrong: the stored hash is not replaced.
UpdateEntryKeepsHash(p, pol, polId, newHash) ==
    [Policy |-> IF IsValid(pol) THEN GenPolicyFromBusinessPolicy(pol, polId) ELSE p.Policy,
     Hash |-> p.Hash,
     ServicePolicies |-> NoMap]

\* BusinessPolicyEntry.UpdateEntry: the entry afterwards.  The hash and the service
\* policies are replaced before the definition is validated; the policy only after.
UpdateEntry(p, pol, polId, newHash) ==
    [Policy |-> IF IsValid(pol) THEN GenPolicyFromBusinessPolicy(pol, polId) ELSE p.Policy,
     Hash |-> newHash,
     ServicePolicies |-> NoMap]

\* UpdateEntry returns an error.
UpdateEntryFails(pol) == ~IsValid(pol)

\* ------------------------------------------------------------- queries

hasOrg(pols, org) == org \in DOMAIN pols

hasBusinessPolicy(pols, org, polName) ==
    hasOrg(pols, org) /\ polName \in DOMAIN pols[org]

serveBusinessPolicy(served, polOrg, polName) ==
    \E k \in DOMAIN served :
        /\ served[k].BusinessPolOrg = polOrg
        /\ (served[k].BusinessPol = polName \/ served[k].BusinessPol = WILDCARD)

serveOrg(served, polOrg) ==
    \E k \in DOMAIN served : served[k].BusinessPolOrg = polOrg

\* The policy orgs a served table names.
ServedOrgs(served) == { served[k].BusinessPolOrg : k \in DOMAIN served }

\* m without key k.
MapDelete(m, k) == [x \in DOMAIN m \ {k} |-> m[x]]

\* m with m[k] = v.
MapPut(m, k, v) == [x \in DOMAIN m \cup {k} |-> IF x = k THEN v ELSE m[x]]

\* ------------------------------------------------------------- deletion

\* The handlers below work on a record st = [pols, ev, err]: the OrgPolicies map,
\* the messages sent so far and the error to return ("nil": none).

\* deleteBusinessPolicy gone wrong: the entry is deleted without a message.
deleteBusinessPolicySilently(st, org, polName) ==
    IF hasBusinessPolicy(st.pols, org, polName)
    THEN [st EXCEPT !.pols[org] = MapDelete(@, polName)]
    ELSE st

\* PolicyManager.deleteBusinessPolicy: send a PolicyDeletedMessage for the entry (none
\* when its policy cannot be serialized), then delete the entry.
deleteBusinessPolicy(st, org, polName) ==
    IF hasBusinessPolicy(st.pols, org, polName)
    THEN LET pe == st.pols[org][polName]
         IN [st EXCEPT
               !.ev = IF CanMarshal(pe.Policy)
                      THEN Append(@, NewPolicyDeletedMessage(pe.Policy.Name, org,
                                                             MarshalPolicy(pe.Policy)))
                      ELSE @,
               !.pols[org] = MapDelete(@, polName)]
    ELSE st

\* The loop of deleteOrg over the org's entries, visited in the order names.
RECURSIVE deleteOrgMessages(_, _, _)
deleteOrgMessages(orgMap, org, names) ==
    IF names = << >> THEN << >>
    ELSE LET pe == orgMap[Head(names)]
             rest == deleteOrgMessages(orgMap, org, Tail(names))
         IN IF CanMarshal(pe.Policy)
            THEN <<NewPolicyDeletedMessage(pe.Policy.Name, org, MarshalPolicy(pe.Policy))>>
                 \o rest
            ELSE rest

\* deleteOrg gone wrong: the org is removed without a message for its entries.
deleteOrgSilently(st, org_in, ord) ==
    IF hasOrg(st.pols, org_in) THEN [st EXCEPT !.pols = MapDelete(@, org_in)] ELSE st

\* PolicyManager.deleteOrg: one PolicyDeletedMessage per entry of the org, then the org
\* is removed from the map.  ord is the order of the range over the org's entries.
deleteOrg(st, org_in, ord) ==
    IF hasOrg(st.pols, org_in)
    THEN [st EXCEPT
            !.ev = @ \o deleteOrgMessages(st.pols[org_in], org_in, ord),
            !.pols = MapDelete(@, org_in)]
    ELSE st

\* ------------------------------------------------------------- SetCurrentBusinessPolicies

\* The first loop gone wrong: no map is made for a new org.
AddServedOrgsNever(pols, servedPols) == pols

\* The first loop of SetCurrentBusinessPolicies: an empty map for every org of the
\* served table that the manager does not have.
AddServedOrgs(pols, servedPols) ==
    [org \in DOMAIN pols \cup ServedOrgs(servedPols) |->
        IF hasOrg(pols, org) THEN pols[org] ELSE NoMap]

\* The second loop gone wrong: an unserved org is kept.
KeepUnservedOrgs(st, served, orgs, nameOrd) == st

\* The second loop: every org of the manager that is no longer served is deleted.
\* orgs is the order of the range over pm.OrgPolicies, nameOrd[org] the order of
\* deleteOrg's range over the org's entries.
RECURSIVE DeleteUnservedOrgs(_, _, _, _)
DeleteUnservedOrgs(st, served, orgs, nameOrd) ==
    IF orgs = << >> THEN st
    ELSE LET org == Head(orgs)
             next == IF ~serveOrg(served, org) THEN deleteOrg(st, org, nameOrd[org]) ELSE st
         IN DeleteUnservedOrgs(next, served, Tail(orgs), nameOrd)

\* SetCurrentBusinessPolicies gone wrong: the served table is saved after the loops, so
\* that the second loop asks the table of the call before.
SetCurrentResultSavesLate(served, pols, servedPols, orgOrd, nameOrd) ==
    IF Cardinality(DOMAIN served) = 0 /\ Cardinality(DOMAIN servedPols) = 0
    THEN [served |-> served, pols |-> pols, ev |-> << >>, err |-> "nil"]
    ELSE LET added == AddServedOrgs(pols, servedPols)
             st == DeleteUnservedOrgs([pols |-> added, ev |-> << >>, err |-> "nil"],
                                      served, orgOrd, nameOrd)
         IN [served |-> servedPols, pols |-> st.pols, ev |-> st.ev, err |-> st.err]

\* What SetCurrentBusinessPolicies(servedPols) makes of the manager: the served table,
\* the org map, the messages sent and the error returned.
SetCurrentResult(served, pols, servedPols, orgOrd, nameOrd) ==
    IF Cardinality(DOMAIN served) = 0 /\ Cardinality(DOMAIN servedPols) = 0
    THEN [served |-> served, pols |-> pols, ev |-> << >>, err |-> "nil"]
    ELSE LET added == AddServedOrgs(pols, servedPols)
             st == DeleteUnservedOrgs([pols |-> added, ev |-> << >>, err |-> "nil"],
                                      servedPols, orgOrd, nameOrd)
         IN [served |-> servedPols, pols |-> st.pols, ev |-> st.ev, err |-> st.err]

SetCurrentBusinessPolicies(servedPols, orgOrd, nameOrd) ==
    LET r == SetCurrentResult(ServedPolicies, OrgPolicies, servedPols, orgOrd, nameOrd)
    IN /\ ServedPolicies' = r.served
       /\ OrgPolicies' = r.pols
       /\ eventChannel' = r.ev
       /\ err' = r.err
       /\ call' = [op |-> "SetCurrentBusinessPolicies", servedPols |-> servedPols,
                   n |-> 1 - call.n]

\* ------------------------------------------------------------- UpdatePolicies

\* The first loop gone wrong: no entry is deleted.
KeepStalePolicies(st, served, org, definedPolicies, names) == st

\* The first loop of UpdatePolicies: an entry is deleted when its name is not served
\* any more or no definition has its name.
RECURSIVE DeleteStalePolicies(_, _, _, _, _)
DeleteStalePolicies(st, served, org, definedPolicies, names) ==
    IF names = << >> THEN st
    ELSE LET polName == Head(names)
             need_delete ==
                 ~(/\ serveBusinessPolicy(served, org, polName)
                   /\ \E polId \in DOMAIN definedPolicies : GetId(polId) = polName)
             next == IF need_delete THEN deleteBusinessPolicy(st, org, polName) ELSE st
         IN DeleteStalePolicies(next, served, org, definedPolicies, Tail(names))

\* The body gone wrong: the entry is updated whether or not the hash changed.
UpdateExistingAlways(st, org, polId, pol) ==
    LET polName == GetId(polId)
        updated == UpdateEntry(st.pols[org][polName], pol, polId, hashPolicy(pol))
    IN IF ~CanHash(pol) THEN [st EXCEPT !.err = "hash"]
       ELSE IF UpdateEntryFails(pol)
            THEN [st EXCEPT !.pols[org][polName] = updated, !.err = "update"]
       ELSE [st EXCEPT
               !.pols[org][polName] = updated,
               !.ev = IF CanMarshal(updated.Policy)
                      THEN Append(@, NewPolicyChangedMessage(updated.Policy.Name, org,
                                                             MarshalPolicy(updated.Policy)))
                      ELSE @]

\* The body of the second loop for an entry that exists: nothing when the hash is
\* the stored one; otherwise UpdateEntry and, when it returns no error and the new
\* policy can be serialized, one PolicyChangedMessage.
UpdateExisting(st, org, polId, pol) ==
    LET polName == GetId(polId)
        pe == st.pols[org][polName]
        newHash == hashPolicy(pol)
        updated == UpdateEntry(pe, pol, polId, newHash)
    IN IF ~CanHash(pol) THEN [st EXCEPT !.err = "hash"]
       ELSE IF pe.Hash = newHash THEN st
       ELSE IF UpdateEntryFails(pol)
            THEN [st EXCEPT !.pols[org][polName] = updated, !.err = "update"]
       ELSE [st EXCEPT
               !.pols[org][polName] = updated,
               !.ev = IF CanMarshal(updated.Policy)
                      THEN Append(@, NewPolicyChangedMessage(updated.Policy.Name, org,
                                                             MarshalPolicy(updated.Policy)))
                      ELSE @]

\* The body gone wrong: the new entry is announced with a PolicyChangedMessage.
CreateEntryAnnounced(st, org, polId, pol) ==
    IF NewBusinessPolicyEntryFails(pol) THEN [st EXCEPT !.err = "create"]
    ELSE LET newPE == NewBusinessPolicyEntry(pol, polId)
         IN [st EXCEPT
               !.pols[org] = MapPut(@, GetId(polId), newPE),
               !.ev = Append(@, NewPolicyChangedMessage(newPE.Policy.Name, org,
                                                        MarshalPolicy(newPE.Policy)))]

\* The body of the second loop for a name without an entry.
CreateEntry(st, org, polId, pol) ==
    IF NewBusinessPolicyEntryFails(pol) THEN [st EXCEPT !.err = "create"]
    ELSE [st EXCEPT !.pols[org] = MapPut(@, GetId(polId), NewBusinessPolicyEntry(pol, polId))]

\* The second loop gone wrong: at the first error the entries are put back as they
\* were when the loop began (start); the messages sent stay sent.
RECURSIVE UpdateDefinedOrUndo(_, _, _, _, _, _)
UpdateDefinedOrUndo(start, st, served, org, definedPolicies, polIds) ==
    IF polIds = << >> THEN st
    ELSE LET polId == Head(polIds)
             pol == definedPolicies[polId]
             next == IF ~serveBusinessPolicy(served, org, GetId(polId)) THEN st
                     ELSE IF hasBusinessPolicy(st.pols, org, GetId(polId))
                          THEN UpdateExisting(st, org, polId, pol)
                          ELSE CreateEntry(st, org, polId, pol)
         IN IF next.err # "nil" THEN [next EXCEPT !.pols = start.pols]
            ELSE UpdateDefinedOrUndo(start, next, served, org, definedPolicies, Tail(polIds))

UpdateDefinedRollsBack(st, served, org, definedPolicies, polIds) ==
    UpdateDefinedOrUndo(st, st, served, org, definedPolicies, polIds)

\* The second loop of UpdatePolicies over the definitions, in the order polIds; the
\* first error ends it.
RECURSIVE UpdateDefined(_, _, _, _, _)
UpdateDefined(st, served, org, definedPolicies, polIds) ==
    IF polIds = << >> THEN st
    ELSE LET polId == Head(polIds)
             pol == definedPolicies[polId]
             next == IF ~serveBusinessPolicy(served, org, GetId(polId)) THEN st
                     ELSE IF hasBusinessPolicy(st.pols, org, GetId(polId))
                          THEN UpdateExisting(st, org, polId, pol)
                          ELSE CreateEntry(st, org, polId, pol)
         IN IF next.err # "nil" THEN next
            ELSE UpdateDefined(next, served, org, definedPolicies, Tail(polIds))

\* UpdatePolicies gone wrong: an org the manager does not have is taken on instead of
\* being refused.
UpdateResultUnknownOrg(served, pols, org, definedPolicies, nameOrd, idOrd) ==
    LET known == IF hasOrg(pols, org) THEN pols ELSE MapPut(pols, org, NoMap)
        st0 == [pols |-> known, ev |-> << >>, err |-> "nil"]
    IN IF Cardinality(DOMAIN definedPolicies) = 0 THEN deleteOrg(st0, org, nameOrd)
       ELSE UpdateDefined(
                DeleteStalePolicies(st0, served, org, definedPolicies, nameOrd),
                served, org, definedPolicies, idOrd)

\* What UpdatePolicies(org, definedPolicies) makes of the org map, with the messages
\* sent and the error returned.  nameOrd is the order of the range over the org's
\* entries, idOrd that of the range over definedPolicies.
UpdateResult(served, pols, org, definedPolicies, nameOrd, idOrd) ==
    LET st0 == [pols |-> pols, ev |-> << >>, err |-> "nil"]
    IN IF ~hasOrg(pols, org) THEN [st0 EXCEPT !.err = "notfound"]
       ELSE IF Cardinality(DOMAIN definedPolicies) = 0 THEN deleteOrg(st0, org, nameOrd)
       ELSE UpdateDefined(
                DeleteStalePolicies(st0, served, org, definedPolicies,
                                    nameOrd),
                served, org, definedPolicies, idOrd)

UpdatePolicies(org, definedPolicies, nameOrd, idOrd) ==
    LET r == UpdateResult(ServedPolicies, OrgPolicies, org, definedPolicies, nameOrd, idOrd)
    IN /\ OrgPolicies' = r.pols
       /\ eventChannel' = r.ev
       /\ err' = r.err
       /\ call' = [op |-> "UpdatePolicies", org |-> org, definedPolicies |-> definedPolicies,
                   n |-> 1 - call.n]
       /\ UNCHANGED ServedPolicies

\* ------------------------------------------------------------- service policies

\* BusinessPolicyEntry.AddServicePolicy on the entry of (org, polName): nothing for a
\* nil policy or an empty service id, an error when the service policy entry cannot
\* be made.
AddServicePolicy(org, polName, svcPolicy, svcId) ==
    /\ hasBusinessPolicy(OrgPolicies, org, polName)
    /\ IF svcPolicy = "nil" \/ svcId = ""
       THEN /\ err' = "nil"
            /\ UNCHANGED OrgPolicies
       ELSE IF svcPolicy = "svbad"
       THEN /\ err' = "service"
            /\ UNCHANGED OrgPolicies
       ELSE /\ err' = "nil"
            /\ OrgPolicies' =
                 [OrgPolicies EXCEPT ![org][polName].ServicePolicies =
                     MapPut(@, svcId, NewServicePolicyEntry(svcPolicy, svcId))]
    /\ eventChannel' = << >>
    /\ call' = [op |-> "AddServicePolicy", org |-> org, polName |-> polName,
                n |-> 1 - call.n]
    /\ UNCHANGED ServedPolicies

\* BusinessPolicyEntry.DeleteAllServicePolicies on the entry of (org, polName).
DeleteAllServicePolicies(org, polName) ==
    /\ hasBusinessPolicy(OrgPolicies, org, polName)
    /\ OrgPolicies' = [OrgPolicies EXCEPT ![org][polName].ServicePolicies = NoMap]
    /\ eventChannel' = << >>
    /\ err' = "nil"
    /\ call' = [op |-> "DeleteAllServicePolicies", org |-> org, polName |-> polName,
                n |-> 1 - call.n]
    /\ UNCHANGED ServedPolicies

\* ------------------------------------------------------------- queries of the workers

\* GetServedNodeOrgs gone wrong: an empty node org is returned as it is.
RECURSIVE GetServedNodeOrgsAsIs(_, _, _, _)
GetServedNodeOrgsAsIs(served, polOrg, polName, keys) ==
    IF keys = << >> THEN << >>
    ELSE LET sp == served[Head(keys)]
             rest == GetServedNodeOrgsAsIs(served, polOrg, polName, Tail(keys))
         IN IF /\ sp.BusinessPolOrg = polOrg
               /\ (sp.BusinessPol = polName \/ sp.BusinessPol = WILDCARD)
            THEN <<sp.NodeOrg>> \o rest
            ELSE rest

\* GetServedNodeOrgs(polOrg, polName): the node orgs of the triplets of the served
\* table that serve the policy, appended in the order keys of the range over the
\* table; the node org of a triplet that names none is its policy org.
RECURSIVE GetServedNodeOrgs(_, _, _, _)
GetServedNodeOrgs(served, polOrg, polName, keys) ==
    IF keys = << >> THEN << >>
    ELSE LET sp == served[Head(keys)]
             node_org == IF sp.NodeOrg = "" THEN sp.BusinessPolOrg ELSE sp.NodeOrg
             rest == GetServedNodeOrgs(served, polOrg, polName, Tail(keys))
         IN IF /\ sp.BusinessPolOrg = polOrg
               /\ (sp.BusinessPol = polName \/ sp.BusinessPol = WILDCARD)
            THEN <<node_org>> \o rest
            ELSE rest

\* A worker calls GetServedNodeOrgs(polOrg, polName); what it returns is kept with the
\* call.
ServedNodeOrgsQuery(polOrg, polName, keys) ==
    /\ call' = [op |-> "GetServedNodeOrgs", polOrg |-> polOrg, polName |-> polName,
                node_orgs |-> GetServedNodeOrgs(ServedPolicies, polOrg, polName, keys),
                n |-> 1 - call.n]
    /\ eventChannel' = << >>
    /\ err' = "nil"
    /\ UNCHANGED <<ServedPolicies, OrgPolicies>>

\* A worker that has not called GetAllBusinessPolicyEntriesForOrg holds no map.
NoHeldMap == [org |-> "", returned |-> NoMap, aliased |-> FALSE, detached |-> NoMap]

\* GetAllBusinessPolicyEntriesForOrg(org), called by a worker: under the lock, it
\* returns pm.OrgPolicies[org] itself, the map the manager goes on writing to, and nil
\* when the manager does not have the org.
GetAllBusinessPolicyEntriesForOrg(org) ==
    /\ held' = IF hasOrg(OrgPolicies, org)
               THEN [org |-> org, returned |-> OrgPolicies[org],
                     aliased |-> TRUE, detached |-> NoMap]
               ELSE [org |-> org, returned |-> NoMap,
                     aliased |-> FALSE, detached |-> NoMap]
    /\ eventChannel' = << >>
    /\ err' = "nil"
    /\ call' = [op |-> "GetAllBusinessPolicyEntriesForOrg", org |-> org, n |-> 1 - call.n]
    /\ UNCHANGED <<ServedPolicies, OrgPolicies>>

\* What the worker reads in the map it holds: the org's map inside pm.OrgPolicies
\* while it is that map, and what that map held when the manager dropped it after.
HeldMap == IF held.aliased THEN OrgPolicies[held.org] ELSE held.detached

\* The held map across a call of the manager: delete(pm.OrgPolicies, org) in deleteOrg
\* drops the org's map without emptying it, and the worker keeps it as it was then (no
\* call adds an org after it deleted one).
HeldAcrossCall ==
    held' = IF held.aliased /\ ~hasOrg(OrgPolicies', held.org)
            THEN [held EXCEPT !.aliased = FALSE, !.detached = OrgPolicies[held.org]]
            ELSE held

\* ------------------------------------------------------------- threads

\* A mutex nobody holds.
Free == "free"

\* The refresh thread, which makes the calls that change the manager.
Refresher == "refresh"

\* The threads of the workers, which make the queries.
Workers == {"w1", "w2"}

Threads == {Refresher} \cup Workers

\* The locals of the refresh thread between calls.  In a call: the orgs, the entry
\* names and the definition ids its loops have still to visit (a range over a map
\* visits them in any order), the org and the entry at hand, the message of the send
\* it is blocked in (msg, at most one) and where it goes on after it (ret); and as
\* history, whether the call has inserted or replaced an entry (touched) and the
\* workers that made a call since the send at hand began (late).
NoFrame ==
    [orgs |-> {}, org |-> "", names |-> {}, polName |-> "", ids |-> {},
     msg |-> << >>, ret |-> "", touched |-> FALSE, late |-> {}]

\* Lock gone wrong: it returns whether or not the mutex is held.
CanLockAnyway(lock) == TRUE

\* sync.Mutex.Lock returns once nobody holds the mutex.
CanLock(lock) == lock = Free

\* String gone wrong: it takes spMapLock first.
StringLockOrderInverted == <<"spMapLock", "polMapLock">>

\* The order in which PolicyManager.String takes the two locks.
StringLockOrder == <<"polMapLock", "spMapLock">>

\* The mutex of that name.
LockOf(name) == IF name = "polMapLock" THEN polMapLock ELSE spMapLock

\* Thread t takes the mutex of that name.
Acquire(name, t) ==
    IF name = "polMapLock"
    THEN polMapLock' = t /\ UNCHANGED spMapLock
    ELSE spMapLock' = t /\ UNCHANGED polMapLock

Goto(t, label) == pc' = [pc EXCEPT ![t] = label]

\* UpdatePolicies gone wrong: the loop over the definitions comes first.
PhasesReconcileFirst == <<"hasOrg", "reconcile", "prune", "Unlock">>

\* UpdatePolicies with definitions, after the hasOrg check: the loop over the entries,
\* the loop over the definitions, the return.
Phases == <<"hasOrg", "prune", "reconcile", "Unlock">>

\* Where UpdatePolicies goes on after the phase p.
PhaseAfter(p) == Phases[1 + CHOOSE i \in 1..3 : Phases[i] = p]

\* The refresh thread calls SetCurrentBusinessPolicies(servedPols).
BeginSetCurrentBusinessPolicies(servedPols) ==
    /\ pc[Refresher] = "idle"
    /\ Goto(Refresher, "Lock")
    /\ call' = [op |-> "SetCurrentBusinessPolicies", servedPols |-> servedPols,
                n |-> 1 - call.n]
    /\ eventChannel' = << >>
    /\ err' = "nil"
    /\ frame' = NoFrame
    /\ UNCHANGED <<ServedPolicies, OrgPolicies, polMapLock, spMapLock>>

\* The refresh thread calls UpdatePolicies(org, definedPolicies).
BeginUpdatePolicies(org, definedPolicies) ==
    /\ pc[Refresher] = "idle"
    /\ Goto(Refresher, "Lock")
    /\ call' = [op |-> "UpdatePolicies", org |-> org, definedPolicies |-> definedPolicies,
                n |-> 1 - call.n]
    /\ eventChannel' = << >>
    /\ err' = "nil"
    /\ frame' = NoFrame
    /\ UNCHANGED <<ServedPolicies, OrgPolicies, polMapLock, spMapLock>>

\* pm.polMapLock.Lock() at the head of both calls.
LockPolMap ==
    /\ pc[Refresher] = "Lock"
    /\ CanLock(polMapLock)
    /\ polMapLock' = Refresher
    /\ Goto(Refresher, IF call.op = "SetCurrentBusinessPolicies"
                       THEN "setServed" ELSE "hasOrg")
    /\ UNCHANGED <<ServedPolicies, OrgPolicies, eventChannel, err, call, spMapLock, frame>>

\* SetCurrentBusinessPolicies up to its second loop: the early exit, or
\* setServedBusinessPolicies (which takes and frees spMapLock) and the first loop.
SetServed ==
    /\ pc[Refresher] = "setServed"
    /\ IF Cardinality(DOMAIN ServedPolicies) = 0 /\ Cardinality(DOMAIN call.servedPols) = 0
       THEN /\ Goto(Refresher, "Unlock")
            /\ UNCHANGED <<ServedPolicies, OrgPolicies, frame>>
       ELSE /\ CanLock(spMapLock)
            /\ ServedPolicies' = call.servedPols
            /\ OrgPolicies' = AddServedOrgs(OrgPolicies, call.servedPols)
            /\ frame' = [frame EXCEPT !.orgs = DOMAIN OrgPolicies']
            /\ Goto(Refresher, "serveOrg")
    /\ UNCHANGED <<eventChannel, err, call, polMapLock, spMapLock>>

\* One turn of the second loop of SetCurrentBusinessPolicies: serveOrg (which takes and
\* frees spMapLock) for an org not visited yet, and into deleteOrg when it is not served.
ServeOrg ==
    /\ pc[Refresher] = "serveOrg"
    /\ IF frame.orgs = {}
       THEN /\ Goto(Refresher, "Unlock")
            /\ UNCHANGED frame
       ELSE /\ CanLock(spMapLock)
            /\ \E org \in frame.orgs :
                  IF serveOrg(ServedPolicies, org)
                  THEN /\ frame' = [frame EXCEPT !.orgs = @ \ {org}]
                       /\ UNCHANGED pc
                  ELSE /\ frame' = [frame EXCEPT !.orgs = @ \ {org}, !.org = org,
                                                 !.names = DOMAIN OrgPolicies[org]]
                       /\ Goto(Refresher, "deleteOrg")
    /\ UNCHANGED <<ServedPolicies, OrgPolicies, eventChannel, err, call,
                   polMapLock, spMapLock>>

\* One turn of the loop of deleteOrg, up to the send of the entry's message if it has
\* one; after the loop, the org is deleted and deleteOrg returns.
DeleteOrg ==
    /\ pc[Refresher] = "deleteOrg"
    /\ IF frame.names = {}
       THEN /\ OrgPolicies' = MapDelete(OrgPolicies, frame.org)
            /\ Goto(Refresher, IF call.op = "SetCurrentBusinessPolicies"
                               THEN "serveOrg" ELSE "Unlock")
            /\ UNCHANGED frame
       ELSE \E polName \in frame.names :
               LET msg == deleteOrgMessages(OrgPolicies[frame.org], frame.org, <<polName>>)
               IN /\ IF msg # << >>
                     THEN /\ frame' = [frame EXCEPT !.names = @ \ {polName},
                                                    !.msg = msg, !.ret = "deleteOrg"]
                          /\ Goto(Refresher, "Send")
                     ELSE /\ frame' = [frame EXCEPT !.names = @ \ {polName}]
                          /\ UNCHANGED pc
                  /\ UNCHANGED OrgPolicies
    /\ UNCHANGED <<ServedPolicies, eventChannel, err, call, polMapLock, spMapLock>>

\* The consumer receives from pm.eventChannel: the send the refresh thread is blocked
\* in returns.
Receive ==
    /\ pc[Refresher] = "Send"
    /\ eventChannel' = eventChannel \o frame.msg
    /\ Goto(Refresher, frame.ret)
    /\ frame' = [frame EXCEPT !.msg = << >>, !.ret = "", !.late = {}]
    /\ UNCHANGED <<ServedPolicies, OrgPolicies, err, call, polMapLock, spMapLock>>

\* UpdatePolicies up to its first loop: the hasOrg check, and into deleteOrg when no
\* definition is given.
HasOrg ==
    /\ pc[Refresher] = "hasOrg"
    /\ IF ~hasOrg(OrgPolicies, call.org)
       THEN /\ err' = "notfound"
            /\ Goto(Refresher, "Unlock")
            /\ UNCHANGED frame
       ELSE /\ frame' = [frame EXCEPT !.org = call.org,
                                      !.names = DOMAIN OrgPolicies[call.org],
                                      !.ids = DOMAIN call.definedPolicies]
            /\ Goto(Refresher, IF Cardinality(DOMAIN call.definedPolicies) = 0
                               THEN "deleteOrg" ELSE PhaseAfter("hasOrg"))
            /\ UNCHANGED err
    /\ UNCHANGED <<ServedPolicies, OrgPolicies, eventChannel, call, polMapLock, spMapLock>>

\* One turn of the first loop of UpdatePolicies: serveBusinessPolicy (which takes and
\* frees spMapLock) for an entry not visited yet, and deleteBusinessPolicy when the
\* entry is to go, up to the send of its message if it has one.
Prune ==
    /\ pc[Refresher] = "prune"
    /\ IF frame.names = {}
       THEN /\ Goto(Refresher, PhaseAfter("prune"))
            /\ UNCHANGED <<OrgPolicies, frame>>
       ELSE /\ CanLock(spMapLock)
            /\ \E polName \in frame.names :
                  LET st0 == [pols |-> OrgPolicies, ev |-> << >>, err |-> "nil"]
                      next == DeleteStalePolicies(st0, ServedPolicies, call.org,
                                                  call.definedPolicies, <<polName>>)
                  IN IF next.ev # << >>
                     THEN /\ frame' = [frame EXCEPT !.names = @ \ {polName},
                                                    !.polName = polName,
                                                    !.msg = next.ev, !.ret = "delete"]
                          /\ Goto(Refresher, "Send")
                          /\ UNCHANGED OrgPolicies
                     ELSE /\ frame' = [frame EXCEPT !.names = @ \ {polName}]
                          /\ OrgPolicies' = next.pols
                          /\ UNCHANGED pc
    /\ UNCHANGED <<ServedPolicies, eventChannel, err, call, polMapLock, spMapLock>>

\* deleteBusinessPolicy after its send: the entry is deleted.
DeleteEntry ==
    /\ pc[Refresher] = "delete"
    /\ OrgPolicies' = [OrgPolicies EXCEPT ![call.org] = MapDelete(@, frame.polName)]
    /\ Goto(Refresher, "prune")
    /\ UNCHANGED <<ServedPolicies, eventChannel, err, call, polMapLock, spMapLock, frame>>

\* One turn of the second loop of UpdatePolicies: serveBusinessPolicy (which takes and
\* frees spMapLock) for a definition not visited yet, then the entry is updated or
\* made, up to the send of the PolicyChangedMessage if there is one or to the return of
\* the error if there is one.
Reconcile ==
    /\ pc[Refresher] = "reconcile"
    /\ IF frame.ids = {}
       THEN /\ Goto(Refresher, PhaseAfter("reconcile"))
            /\ UNCHANGED <<OrgPolicies, err, frame>>
       ELSE /\ CanLock(spMapLock)
            /\ \E polId \in frame.ids :
                  LET st0 == [pols |-> OrgPolicies, ev |-> << >>, err |-> "nil"]
                      next == UpdateDefined(st0, ServedPolicies, call.org,
                                            call.definedPolicies, <<polId>>)
                  IN /\ OrgPolicies' = next.pols
                     /\ err' = next.err
                     /\ frame' = [frame EXCEPT
                                     !.ids = @ \ {polId},
                                     !.msg = next.ev,
                                     !.ret = IF next.ev # << >> THEN "reconcile" ELSE "",
                                     !.touched = @ \/ next.pols # OrgPolicies]
                     /\ Goto(Refresher, IF next.err # "nil" THEN "Unlock"
                                        ELSE IF next.ev # << >> THEN "Send"
                                        ELSE "reconcile")
    /\ UNCHANGED <<ServedPolicies, eventChannel, call, polMapLock, spMapLock>>

\* The deferred pm.polMapLock.Unlock(): the call returns.
UnlockPolMap ==
    /\ pc[Refresher] = "Unlock"
    /\ polMapLock' = Free
    /\ Goto(Refresher, "idle")
    /\ frame' = NoFrame
    /\ UNCHANGED <<ServedPolicies, OrgPolicies, eventChannel, err, call, spMapLock>>

\* The queries a worker makes: the served-table query GetServedNodeOrgs, the org-map
\* query GetAllPolicyOrgs, and String, which reads both maps.
Queries == {"GetServedNodeOrgs", "GetAllPolicyOrgs", "String"}

\* Worker w calls the query op; it then stands at the query's first Lock.
Invoke(w, op) ==
    /\ pc[w] = "idle"
    /\ Goto(w, op)
    /\ frame' = IF pc[Refresher] = "Send" THEN [frame EXCEPT !.late = @ \cup {w}] ELSE frame
    /\ UNCHANGED <<ServedPolicies, OrgPolicies, eventChannel, err, call,
                   polMapLock, spMapLock>>

\* GetServedNodeOrgs: pm.spMapLock.Lock().
GetServedNodeOrgsLock(w) ==
    /\ pc[w] = "GetServedNodeOrgs"
    /\ CanLock(spMapLock)
    /\ spMapLock' = w
    /\ Goto(w, "GetServedNodeOrgs_locked")
    /\ UNCHANGED <<ServedPolicies, OrgPolicies, eventChannel, err, call, polMapLock, frame>>

\* GetServedNodeOrgs reads the served table and returns: the deferred Unlock.
GetServedNodeOrgsReturn(w) ==
    /\ pc[w] = "GetServedNodeOrgs_locked"
    /\ spMapLock' = Free
    /\ Goto(w, "idle")
    /\ UNCHANGED <<ServedPolicies, OrgPolicies, eventChannel, err, call, polMapLock, frame>>

\* GetAllPolicyOrgs: pm.polMapLock.Lock().
GetAllPolicyOrgsLock(w) ==
    /\ pc[w] = "GetAllPolicyOrgs"
    /\ CanLock(polMapLock)
    /\ polMapLock' = w
    /\ Goto(w, "GetAllPolicyOrgs_locked")
    /\ UNCHANGED <<ServedPolicies, OrgPolicies, eventChannel, err, call, spMapLock, frame>>

\* GetAllPolicyOrgs reads the org map and returns: the deferred Unlock.
GetAllPolicyOrgsReturn(w) ==
    /\ pc[w] = "GetAllPolicyOrgs_locked"
    /\ polMapLock' = Free
    /\ Goto(w, "idle")
    /\ UNCHANGED <<ServedPolicies, OrgPolicies, eventChannel, err, call, spMapLock, frame>>

\* String: the first Lock.
StringLockFirst(w) ==
    /\ pc[w] = "String"
    /\ CanLock(LockOf(StringLockOrder[1]))
    /\ Acquire(StringLockOrder[1], w)
    /\ Goto(w, "String_second")
    /\ UNCHANGED <<ServedPolicies, OrgPolicies, eventChannel, err, call, frame>>

\* String: the second Lock, with the first mutex held.
StringLockSecond(w) ==
    /\ pc[w] = "String_second"
    /\ CanLock(LockOf(StringLockOrder[2]))
    /\ Acquire(StringLockOrder[2], w)
    /\ Goto(w, "String_locked")
    /\ UNCHANGED <<ServedPolicies, OrgPolicies, eventChannel, err, call, frame>>

\* String returns: both deferred Unlocks.
StringReturn(w) ==
    /\ pc[w] = "String_locked"
    /\ polMapLock' = Free
    /\ spMapLock' = Free
    /\ Goto(w, "idle")
    /\ UNCHANGED <<ServedPolicies, OrgPolicies, eventChannel, err, call, frame>>

\* The mutex thread t is waiting for or about to take, "" when it is at no Lock (the
\* mutexes the refresh thread takes and frees inside one step are not listed).
WaitsFor(t) ==
    CASE pc[t] \in {"Lock", "GetAllPolicyOrgs"} -> "polMapLock"
      [] pc[t] = "GetServedNodeOrgs" -> "spMapLock"
      [] pc[t] = "String" -> StringLockOrder[1]
      [] pc[t] = "String_second" -> StringLockOrder[2]
      [] pc[t] \in {"setServed", "serveOrg", "prune", "reconcile"} -> "spMapLock"
      [] OTHER -> ""

\* ------------------------------------------------------------- specification

\* NewPolicyManager: no served table, no org.
Init ==
    /\ ServedPolicies = NoMap
    /\ OrgPolicies = NoMap
    /\ eventChannel = << >>
    /\ err = "nil"
    /\ call = [op |-> "NewPolicyManager", n |-> 0]
    /\ seen = [org \in Orgs |-> [defined |-> {}, served |-> {}]]
    /\ held = NoHeldMap
    /\ repeated = FALSE
    /\ polMapLock = Free
    /\ spMapLock = Free
    /\ pc = [t \in Threads |-> "idle"]
    /\ frame = NoFrame

\* The orders the range over the orgs can take in SetCurrentBusinessPolicies(servedPols).
OrgOrders(servedPols) == Orders(DOMAIN OrgPolicies \cup ServedOrgs(servedPols))

\* The orders a range over the entries of org can take.
NameOrdersOf(org) ==
    IF hasOrg(OrgPolicies, org) THEN Orders(DOMAIN OrgPolicies[org]) ELSE { << >> }

CallSetCurrentBusinessPolicies ==
    \E servedPols \in ServedTables :
       \E orgOrd \in OrgOrders(servedPols) :
          \E nameOrd \in [Orgs -> UNION { NameOrdersOf(o) : o \in Orgs }] :
             /\ \A o \in Orgs : nameOrd[o] \in NameOrdersOf(o)
             /\ SetCurrentBusinessPolicies(servedPols, orgOrd, nameOrd)

CallUpdatePoliciesOver(contents) ==
    \E org \in Orgs :
       \E definedPolicies \in DefinedPoliciesOf(org, contents) :
          \E nameOrd \in NameOrdersOf(org), idOrd \in Orders(DOMAIN definedPolicies) :
             UpdatePolicies(org, definedPolicies, nameOrd, idOrd)

CallUpdatePolicies == CallUpdatePoliciesOver(Contents)

\* The calls of UpdatePolicies when every definition of the exchange can be serialized.
CallUpdatePoliciesSerializable == CallUpdatePoliciesOver(SerializableContents)

CallAddServicePolicy ==
    \E org \in Orgs, polName \in PolicyNames,
       svcPolicy \in ServicePolicyDefs \cup {"nil", "svbad"}, svcId \in ServiceIds \cup {""} :
       AddServicePolicy(org, polName, svcPolicy, svcId)

CallDeleteAllServicePolicies ==
    \E org \in Orgs, polName \in PolicyNames : DeleteAllServicePolicies(org, polName)

\* The refresh loop alone: the two mutation calls of the manager.
Next ==
    \/ CallSetCurrentBusinessPolicies /\ UNCHANGED <<seen, held, repeated, threadVars>>
    \/ CallUpdatePolicies /\ UNCHANGED <<seen, held, repeated, threadVars>>

Spec == Init /\ [][Next]_vars

\* The refresh loop together with the workers that fill and clear the service
\* policies of the entries, over an exchange whose definitions can all be serialized.
NextSvc ==
    \/ CallSetCurrentBusinessPolicies /\ UNCHANGED <<seen, held, repeated, threadVars>>
    \/ CallUpdatePoliciesSerializable /\ UNCHANGED <<seen, held, repeated, threadVars>>
    \/ CallAddServicePolicy /\ UNCHANGED <<seen, held, repeated, threadVars>>
    \/ CallDeleteAllServicePolicies /\ UNCHANGED <<seen, held, repeated, threadVars>>

SpecSvc == Init /\ [][NextSvc]_vars

\* The names of PolicyNames the served table serves in org.
ServedNames(served, org) == { n \in PolicyNames : serveBusinessPolicy(served, org, n) }

\* The names the definitions of definedPolicies have.
DefinedNames(definedPolicies) == { GetId(polId) : polId \in DOMAIN definedPolicies }

\* The refresh loop, with the history of what each org's last UpdatePolicies call saw.
NextSeen ==
    \/ CallSetCurrentBusinessPolicies /\ UNCHANGED <<seen, held, repeated, threadVars>>
    \/ /\ CallUpdatePolicies
       /\ seen' = [seen EXCEPT ![call'.org] =
                      [defined |-> DefinedNames(call'.definedPolicies),
                       served |-> ServedNames(ServedPolicies, call'.org)]]
       /\ UNCHANGED <<held, repeated, threadVars>>

SpecSeen == Init /\ [][NextSeen]_vars

\* The calls of UpdatePolicies when every definition of the exchange is valid and can
\* be serialized.
CallUpdatePoliciesValid == CallUpdatePoliciesOver({"v1", "v2"})

CallGetAllBusinessPolicyEntriesForOrg ==
    \E org \in Orgs : GetAllBusinessPolicyEntriesForOrg(org)

\* The refresh loop and a worker that asks for the entries of an org and keeps the map
\* it is given, over an exchange whose definitions are all valid.
NextWorker ==
    \/ CallSetCurrentBusinessPolicies /\ HeldAcrossCall /\ UNCHANGED <<seen, repeated, threadVars>>
    \/ CallUpdatePoliciesValid /\ HeldAcrossCall /\ UNCHANGED <<seen, repeated, threadVars>>
    \/ CallGetAllBusinessPolicyEntriesForOrg /\ UNCHANGED <<seen, repeated, threadVars>>

SpecWorker == Init /\ [][NextWorker]_vars

CallGetServedNodeOrgs ==
    \E polOrg \in Orgs, polName \in PolicyNames, keys \in Orders(DOMAIN ServedPolicies) :
       ServedNodeOrgsQuery(polOrg, polName, keys)

\* The refresh thread replaces the served table and a worker asks for node orgs.
NextNodeOrgs ==
    \/ CallSetCurrentBusinessPolicies /\ UNCHANGED <<seen, held, repeated, threadVars>>
    \/ CallGetServedNodeOrgs /\ UNCHANGED <<seen, held, repeated, threadVars>>

SpecNodeOrgs == Init /\ [][NextNodeOrgs]_vars

\* The step makes the call that the call before it was: same name, same arguments.
Repeats == [call' EXCEPT !.n = 0] = [call EXCEPT !.n = 0]

\* The refresh loop, with the history of whether a call repeats the one before it.
NextRepeat ==
    \/ CallSetCurrentBusinessPolicies /\ repeated' = Repeats
          /\ UNCHANGED <<seen, held, threadVars>>
    \/ CallUpdatePolicies /\ repeated' = Repeats
          /\ UNCHANGED <<seen, held, threadVars>>

SpecRepeat == Init /\ [][NextRepeat]_vars

\* The served tables of the threads' specification: o1 alone, served by name or by
\* wildcard.
ThreadTables ==
    { t \in ServedTables :
        \A k \in DOMAIN t : k.BusinessPolOrg = "o1" /\ k.BusinessPol \in {"p1", WILDCARD} }

\* The steps of the refresh thread inside a call.
RefreshStep ==
    \/ LockPolMap
    \/ SetServed
    \/ ServeOrg
    \/ DeleteOrg
    \/ HasOrg
    \/ Prune
    \/ DeleteEntry
    \/ Reconcile
    \/ UnlockPolMap

\* The steps of worker w inside a query.
WorkerStep(w) ==
    \/ GetServedNodeOrgsLock(w)
    \/ GetServedNodeOrgsReturn(w)
    \/ GetAllPolicyOrgsLock(w)
    \/ GetAllPolicyOrgsReturn(w)
    \/ StringLockFirst(w)
    \/ StringLockSecond(w)
    \/ StringReturn(w)

\* The variables the threads' specification leaves alone.
history == <<seen, held, repeated>>

\* One refresh thread and the workers, step by step, with the consumer of the event
\* channel.  The refresh thread is given served tables of tables, and definitions for
\* the orgs of orgs with their contents among contents.
NextThreadsOver(tables, orgs, contents) ==
    \/ (\E servedPols \in tables : BeginSetCurrentBusinessPolicies(servedPols))
          /\ UNCHANGED history
    \/ (\E org \in orgs :
          \E definedPolicies \in DefinedPoliciesOf(org, contents) :
             BeginUpdatePolicies(org, definedPolicies))
          /\ UNCHANGED history
    \/ LockPolMap /\ UNCHANGED history
    \/ SetServed /\ UNCHANGED history
    \/ ServeOrg /\ UNCHANGED history
    \/ DeleteOrg /\ UNCHANGED history
    \/ HasOrg /\ UNCHANGED history
    \/ Prune /\ UNCHANGED history
    \/ DeleteEntry /\ UNCHANGED history
    \/ Reconcile /\ UNCHANGED history
    \/ UnlockPolMap /\ UNCHANGED history
    \/ Receive /\ UNCHANGED history
    \/ (\E w \in Workers, op \in Queries : Invoke(w, op)) /\ UNCHANGED history
    \/ (\E w \in Workers : GetServedNodeOrgsLock(w)) /\ UNCHANGED history
    \/ (\E w \in Workers : GetServedNodeOrgsReturn(w)) /\ UNCHANGED history
    \/ (\E w \in Workers : GetAllPolicyOrgsLock(w)) /\ UNCHANGED history
    \/ (\E w \in Workers : GetAllPolicyOrgsReturn(w)) /\ UNCHANGED history
    \/ (\E w \in Workers : StringLockFirst(w)) /\ UNCHANGED history
    \/ (\E w \in Workers : StringLockSecond(w)) /\ UNCHANGED history
    \/ (\E w \in Workers : StringReturn(w)) /\ UNCHANGED history

\* The definitions of the exchange are valid or not, and can be serialized.
NextThreads == NextThreadsOver(ThreadTables, Orgs, SerializableContents)

SpecThreads == Init /\ [][NextThreads]_vars

\* The served tables of the fair specification: nothing, or all of o1.
FairTables ==
    { t \in ThreadTables :
        \A k \in DOMAIN t : k.BusinessPol = WILDCARD }

\* The threads over an exchange that has valid definitions, in o1.
NextThreadsFair == NextThreadsOver(FairTables, {"o1"}, {"v1", "v2"})

\* The same with the scheduling of the Go runtime.  A thread that can take a step
\* takes one, and sync.Mutex hands a mutex to a thread that keeps waiting for it
\* (starvation mode), so a thread whose step is possible again and again takes it;
\* and the consumer keeps receiving.  Nothing makes a thread start a call.
SpecThreadsFair ==
    /\ Init /\ [][NextThreadsFair]_vars
    /\ SF_vars(RefreshStep /\ UNCHANGED history)
    /\ \A w \in Workers : SF_vars(WorkerStep(w) /\ UNCHANGED history)
    /\ WF_vars(Receive /\ UNCHANGED history)

\* ------------------------------------------------------------- claims

\* The positions in the message sequence ev of the messages of the given type about
\* the policy polName of org.
MessagesFor(ev, type, org, polName) ==
    { i \in DOMAIN ev :
        ev[i].type = type /\ ev[i].org = org /\ GetId(ev[i].name) = polName }

\* The positions in ev of the messages of any type about the policy polName of org.
MessagesAbout(ev, org, polName) ==
    { i \in DOMAIN ev : ev[i].org = org /\ GetId(ev[i].name) = polName }

IsUpdatePolicies == call.op = "UpdatePolicies"

IsSetCurrentBusinessPolicies == call.op = "SetCurrentBusinessPolicies"

\* Before the call: the name of polId is served, has an entry, and the definition pol
\* hashes to something else than the entry's stored hash.
ChangedDefinition(org, polId, pol) ==
    /\ serveBusinessPolicy(ServedPolicies, org, GetId(polId))
    /\ hasBusinessPolicy(OrgPolicies, org, GetId(polId))
    /\ CanHash(pol)
    /\ OrgPolicies[org][GetId(polId)].Hash # hashPolicy(pol)

\* Before the call: the name of polId is served, has an entry, and the definition pol
\* hashes to the entry's stored hash.
UnchangedDefinition(org, polId, pol) ==
    /\ serveBusinessPolicy(ServedPolicies, org, GetId(polId))
    /\ hasBusinessPolicy(OrgPolicies, org, GetId(polId))
    /\ CanHash(pol)
    /\ OrgPolicies[org][GetId(polId)].Hash = hashPolicy(pol)

\* The step sent n PolicyChanged messages about polId, each with the serialized
\* internal policy of pol, and left the entry with the hash of pol.
ChangeAnnounced(org, polId, pol, n) ==
    LET sent == MessagesFor(eventChannel', "CHANGED_POLICY", org, GetId(polId))
        newPol == GenPolicyFromBusinessPolicy(pol, polId)
    IN /\ Cardinality(sent) = n
       /\ \A i \in sent :
             eventChannel'[i] = NewPolicyChangedMessage(polId, org, MarshalPolicy(newPol))
       /\ hasBusinessPolicy(OrgPolicies', org, GetId(polId))
       /\ OrgPolicies'[org][GetId(polId)].Hash = hashPolicy(pol)

\* C1 as stated: whenever UpdatePolicies is given a definition of a served name that has
\* an entry, and the definition's hash differs from the stored one, the call sends
\* exactly one PolicyChanged message for that (org, name) with the new serialized
\* policy, and the entry's stored hash is the definition's afterwards.
C1_AsStated ==
    [][IsUpdatePolicies' =>
         \A polId \in DOMAIN call'.definedPolicies :
            ChangedDefinition(call'.org, polId, call'.definedPolicies[polId])
            => ChangeAnnounced(call'.org, polId, call'.definedPolicies[polId], 1)]_vars

\* C1 amended: the same for a call that returns no error, and with no message when the
\* new internal policy cannot be serialized.
C1_ChangeDetection ==
    [][(IsUpdatePolicies' /\ err' = "nil") =>
         \A polId \in DOMAIN call'.definedPolicies :
            LET pol == call'.definedPolicies[polId]
            IN ChangedDefinition(call'.org, polId, pol)
               => ChangeAnnounced(call'.org, polId, pol,
                      IF CanMarshal(GenPolicyFromBusinessPolicy(pol, polId)) THEN 1 ELSE 0)]_vars

\* C1's case: an UpdatePolicies call returned no error and sent a PolicyChanged message.
C1_Witness ==
    /\ IsUpdatePolicies
    /\ err = "nil"
    /\ \E i \in DOMAIN eventChannel : eventChannel[i].type = "CHANGED_POLICY"

\* C2: when UpdatePolicies is given a definition of a served name that has an entry and
\* the definition hashes to the stored hash, the call sends no message about that name
\* and leaves the entry (policy, hash and service policies) as it was.
C2_UnchangedIsNoOp ==
    [][IsUpdatePolicies' =>
         \A polId \in DOMAIN call'.definedPolicies :
            UnchangedDefinition(call'.org, polId, call'.definedPolicies[polId])
            => /\ MessagesAbout(eventChannel', call'.org, GetId(polId)) = {}
               /\ hasBusinessPolicy(OrgPolicies', call'.org, GetId(polId))
               /\ OrgPolicies'[call'.org][GetId(polId)] = OrgPolicies[call'.org][GetId(polId)]]_vars

\* C2's case: after an UpdatePolicies call an entry has the hash of the definition the
\* call was given and still holds a service policy (an update or a creation would have
\* emptied them).
C2_Witness ==
    /\ IsUpdatePolicies
    /\ \E polId \in DOMAIN call.definedPolicies :
          /\ hasBusinessPolicy(OrgPolicies, call.org, GetId(polId))
          /\ OrgPolicies[call.org][GetId(polId)].Hash = hashPolicy(call.definedPolicies[polId])
          /\ OrgPolicies[call.org][GetId(polId)].ServicePolicies # NoMap

\* The step removed org from the manager.
OrgRemoved(org) == hasOrg(OrgPolicies, org) /\ ~hasOrg(OrgPolicies', org)

\* The two calls that remove an org do remove it.
RemovalHappens ==
    \A org \in DOMAIN OrgPolicies :
       /\ (IsSetCurrentBusinessPolicies' /\ org \notin ServedOrgs(call'.servedPols))
          => OrgRemoved(org)
       /\ (IsUpdatePolicies' /\ call'.org = org /\ DOMAIN call'.definedPolicies = {})
          => OrgRemoved(org)

\* C3 as stated: whenever an org is removed (SetCurrentBusinessPolicies with a table that
\* does not name it, UpdatePolicies with no definition), exactly one PolicyDeleted
\* message is sent for each policy that was cached under it, and the org is gone.
C3_AsStated ==
    [][/\ RemovalHappens
       /\ \A org \in DOMAIN OrgPolicies :
             OrgRemoved(org) =>
                \A polName \in DOMAIN OrgPolicies[org] :
                   Cardinality(MessagesFor(eventChannel', "DELETED_POLICY", org, polName)) = 1]_vars

\* C3 amended: exactly one PolicyDeleted message for each cached policy whose internal
\* policy can be serialized, carrying that serialized policy, and none for one whose
\* policy cannot.
C3_DeletionCascade ==
    [][/\ RemovalHappens
       /\ \A org \in DOMAIN OrgPolicies :
             OrgRemoved(org) =>
                \A polName \in DOMAIN OrgPolicies[org] :
                   LET pe == OrgPolicies[org][polName]
                       sent == MessagesFor(eventChannel', "DELETED_POLICY", org, polName)
                   IN /\ Cardinality(sent) = IF CanMarshal(pe.Policy) THEN 1 ELSE 0
                      /\ \A i \in sent : eventChannel'[i].policy = MarshalPolicy(pe.Policy)]_vars

\* C3's case: SetCurrentBusinessPolicies removed an org with two cached policies and sent
\* their two PolicyDeleted messages.
C3_Witness ==
    /\ IsSetCurrentBusinessPolicies
    /\ ~hasOrg(OrgPolicies, "o1")
    /\ Len(eventChannel) = 2
    /\ \A i \in DOMAIN eventChannel :
          eventChannel[i].type = "DELETED_POLICY" /\ eventChannel[i].org = "o1"

\* C4 as stated: an entry is cached at OrgPolicies[org][name] only if the current served
\* table has a triplet matching (org, name) or (org, "*") and the last definition set
\* seen for org has a definition of name.
C4_AsStated ==
    \A org \in DOMAIN OrgPolicies :
       \A polName \in DOMAIN OrgPolicies[org] :
          /\ serveBusinessPolicy(ServedPolicies, org, polName)
          /\ polName \in seen[org].defined

\* C4 amended: an entry is cached only if the current served table names the org, the
\* served table as it was at the last UpdatePolicies call for the org had a matching
\* triplet, and the definition set of that call has a definition of the name.
C4_EntryServedAndDefined ==
    \A org \in DOMAIN OrgPolicies :
       \A polName \in DOMAIN OrgPolicies[org] :
          /\ serveOrg(ServedPolicies, org)
          /\ polName \in seen[org].served
          /\ polName \in seen[org].defined

\* C4's case: an entry is cached although the served table, replaced since, no longer
\* serves its name.
C4_Witness ==
    /\ IsSetCurrentBusinessPolicies
    /\ \E org \in DOMAIN OrgPolicies :
          \E polName \in DOMAIN OrgPolicies[org] :
             ~serveBusinessPolicy(ServedPolicies, org, polName)

\* C5: after every SetCurrentBusinessPolicies(newTriplets) call the orgs of OrgPolicies
\* are exactly the policy orgs newTriplets names.
C5_KeysAreServedOrgs ==
    IsSetCurrentBusinessPolicies => DOMAIN OrgPolicies = ServedOrgs(call.servedPols)

\* C5's case: SetCurrentBusinessPolicies returned with both orgs served, o1 keeping the
\* entry it had and o2 with its map.
C5_Witness ==
    /\ IsSetCurrentBusinessPolicies
    /\ DOMAIN OrgPolicies = {"o1", "o2"}
    /\ DOMAIN OrgPolicies["o1"] # {}

\* C6: the orgs of OrgPolicies are always among the policy orgs of the served table.
C6_KeysSubsetOfServed == DOMAIN OrgPolicies \subseteq ServedOrgs(ServedPolicies)

\* C6's case: an org is served and not in OrgPolicies (UpdatePolicies removed it), while
\* another org is.
C6_Witness ==
    /\ DOMAIN OrgPolicies # {}
    /\ DOMAIN OrgPolicies # ServedOrgs(ServedPolicies)

\* C7: UpdatePolicies for an org that OrgPolicies does not have returns the not-found
\* error, leaves the served table and the org map as they were, and sends no message.
C7_UnknownOrgRefused ==
    [][(IsUpdatePolicies' /\ ~hasOrg(OrgPolicies, call'.org)) =>
         /\ err' = "notfound"
         /\ ServedPolicies' = ServedPolicies
         /\ OrgPolicies' = OrgPolicies
         /\ eventChannel' = << >>]_vars

\* C7's case: UpdatePolicies returned the not-found error while another org is tracked.
C7_Witness ==
    /\ IsUpdatePolicies
    /\ err = "notfound"
    /\ DOMAIN OrgPolicies # {}

\* Before the call: the name of polId is served and has no entry.
FirstSighting(org, polId) ==
    /\ hasOrg(OrgPolicies, org)
    /\ serveBusinessPolicy(ServedPolicies, org, GetId(polId))
    /\ ~hasBusinessPolicy(OrgPolicies, org, GetId(polId))

\* A call surely reaches the definition polId in its second loop when it returns no
\* error, or when polId is its only definition.
SurelyProcessed(polId) ==
    err' = "nil" \/ DOMAIN call'.definedPolicies = {polId}

\* C8 as stated: when UpdatePolicies processes a definition whose name is served and has
\* no entry, it inserts an entry with the hash of the definition and no service policy,
\* and sends no message about that name.
C8_AsStated ==
    [][IsUpdatePolicies' =>
         \A polId \in DOMAIN call'.definedPolicies :
            (FirstSighting(call'.org, polId) /\ SurelyProcessed(polId))
            => /\ hasBusinessPolicy(OrgPolicies', call'.org, GetId(polId))
               /\ OrgPolicies'[call'.org][GetId(polId)].Hash
                     = hashPolicy(call'.definedPolicies[polId])
               /\ OrgPolicies'[call'.org][GetId(polId)].ServicePolicies = NoMap
               /\ MessagesAbout(eventChannel', call'.org, GetId(polId)) = {}]_vars

\* C8 amended: no message about the name is sent in any case.  For a definition that
\* can be hashed and is valid, the entry the call leaves (it leaves one when it returns
\* no error) is the new entry of that definition: its hash, its internal policy, no
\* service policy.  For one that cannot be hashed or is invalid, no entry is inserted
\* and the call returns an error.
C8_SilentCreation ==
    [][IsUpdatePolicies' =>
         \A polId \in DOMAIN call'.definedPolicies :
            LET org == call'.org
                pol == call'.definedPolicies[polId]
            IN FirstSighting(org, polId)
               => /\ MessagesAbout(eventChannel', org, GetId(polId)) = {}
                  /\ IF NewBusinessPolicyEntryFails(pol)
                     THEN ~hasBusinessPolicy(OrgPolicies', org, GetId(polId)) /\ err' # "nil"
                     ELSE /\ err' = "nil" => hasBusinessPolicy(OrgPolicies', org, GetId(polId))
                          /\ hasBusinessPolicy(OrgPolicies', org, GetId(polId))
                             => OrgPolicies'[org][GetId(polId)]
                                   = NewBusinessPolicyEntry(pol, polId)]_vars

\* C8's case: an UpdatePolicies call returned no error, sent nothing, and the manager
\* holds the entry of a definition it was given.
C8_Witness ==
    /\ IsUpdatePolicies
    /\ err = "nil"
    /\ eventChannel = << >>
    /\ \E polId \in DOMAIN call.definedPolicies :
          /\ hasBusinessPolicy(OrgPolicies, call.org, GetId(polId))
          /\ OrgPolicies[call.org][GetId(polId)]
                = NewBusinessPolicyEntry(call.definedPolicies[polId], polId)

\* C9 as stated: the map GetAllBusinessPolicyEntriesForOrg handed to a worker is a
\* snapshot: whatever UpdatePolicies and SetCurrentBusinessPolicies do later, the worker
\* finds in it the policy names it had when it was returned, no entry inserted and no
\* entry deleted.
C9_ReturnedMapIsSnapshot == DOMAIN HeldMap = DOMAIN held.returned

\* The entry of polName in org had its content replaced by the step.
EntryReplaced(org, polName) ==
    /\ hasBusinessPolicy(OrgPolicies, org, polName)
    /\ hasBusinessPolicy(OrgPolicies', org, polName)
    /\ OrgPolicies'[org][polName] # OrgPolicies[org][polName]

\* The entry of polName in org was removed by the step.
EntryRemoved(org, polName) ==
    /\ hasBusinessPolicy(OrgPolicies, org, polName)
    /\ ~hasBusinessPolicy(OrgPolicies', org, polName)

\* C10 as stated, for the entries whose internal policy can be serialized: no
\* replacement of an entry's content happens without a PolicyChanged message that
\* carries the entry's new policy, and no removal of an entry without a PolicyDeleted
\* message that carries the policy removed, sent by the call that changes the state.
C10_NoChangeWithoutEvent ==
    [][\A org \in Orgs, polName \in PolicyNames :
         /\ (EntryReplaced(org, polName) /\ CanMarshal(OrgPolicies'[org][polName].Policy))
            => \E i \in MessagesFor(eventChannel', "CHANGED_POLICY", org, polName) :
                  eventChannel'[i].policy = MarshalPolicy(OrgPolicies'[org][polName].Policy)
         /\ (EntryRemoved(org, polName) /\ CanMarshal(OrgPolicies[org][polName].Policy))
            => \E i \in MessagesFor(eventChannel', "DELETED_POLICY", org, polName) :
                  eventChannel'[i].policy = MarshalPolicy(OrgPolicies[org][polName].Policy)]_vars

\* C11 as stated: while the refresh thread is blocked in a send on the event channel,
\* a worker that made its call since the send began does not get any further in it,
\* whatever the query.
C11_AsStated ==
    [][pc[Refresher] = "Send" => \A w \in frame.late : pc'[w] = pc[w]]_vars

\* C11 amended: while the refresh thread is blocked in a send on the event channel, a
\* worker that called, since the send began, a query that takes polMapLock
\* (GetAllPolicyOrgs, String) stays at its Lock.
C11_OrgMapQueriesStall ==
    [][pc[Refresher] = "Send" =>
         \A w \in frame.late :
            pc[w] \in {"GetAllPolicyOrgs", "String"} => pc'[w] = pc[w]]_vars

\* C11's case: the refresh thread is blocked in a send, and both workers have called
\* since: one waits for polMapLock, the other is inside GetServedNodeOrgs.
C11_Witness ==
    /\ pc[Refresher] = "Send"
    /\ \E w \in frame.late : pc[w] = "GetAllPolicyOrgs"
    /\ \E w \in frame.late : pc[w] = "GetServedNodeOrgs_locked"

\* The step sends a message of the given type on the event channel.
Sends(type) ==
    /\ Len(eventChannel') = Len(eventChannel) + 1
    /\ eventChannel'[Len(eventChannel')].type = type

\* C16: within an UpdatePolicies call, an entry is removed or a PolicyDeleted message
\* sent only while the call has inserted or replaced no entry and sent no
\* PolicyChanged message.
C16_PruneBeforeReconcile ==
    [][(/\ call.op = "UpdatePolicies"
        /\ \/ Sends("DELETED_POLICY")
           \/ \E org \in Orgs, polName \in PolicyNames : EntryRemoved(org, polName))
       => /\ ~frame.touched
          /\ \A i \in DOMAIN eventChannel : eventChannel[i].type # "CHANGED_POLICY"]_vars

\* C16's case: an UpdatePolicies call has sent a PolicyDeleted message for an entry it
\* removed and then a PolicyChanged message for one it replaced.
C16_Witness ==
    /\ call.op = "UpdatePolicies"
    /\ frame.touched
    /\ Len(eventChannel) = 2
    /\ eventChannel[1].type = "DELETED_POLICY"
    /\ eventChannel[2].type = "CHANGED_POLICY"

\* C17: no thread waits for polMapLock while it holds spMapLock, and every call a
\* thread has begun returns (the consumer keeps receiving).
C17_LockOrderAndReturn ==
    /\ [](\A t \in Threads : WaitsFor(t) = "polMapLock" => spMapLock # t)
    /\ \A t \in Threads : (pc[t] # "idle") ~> (pc[t] = "idle")

\* C17's case: the refresh thread, holding polMapLock, waits for spMapLock, which a
\* worker inside String cannot hold and a worker inside GetServedNodeOrgs does.
C17_Witness ==
    /\ polMapLock = Refresher
    /\ WaitsFor(Refresher) = "spMapLock"
    /\ spMapLock \in Workers
    /\ \E w \in Workers : pc[w] = "String"

\* Before the call: the entry polName of org is to go, its name not served any more or
\* without a definition in defs.
Stale(org, polName, defs) ==
    ~(serveBusinessPolicy(ServedPolicies, org, polName) /\ polName \in DefinedNames(defs))

\* The step removed the entry polName of org, with one PolicyDeleted message that
\* carries its policy if that policy can be serialized, and with none if it cannot.
RemovedWithMessage(org, polName) ==
    LET pe == OrgPolicies[org][polName]
        sent == MessagesFor(eventChannel', "DELETED_POLICY", org, polName)
    IN /\ ~hasBusinessPolicy(OrgPolicies', org, polName)
       /\ Cardinality(sent) = IF CanMarshal(pe.Policy) THEN 1 ELSE 0
       /\ \A i \in sent : eventChannel'[i].policy = MarshalPolicy(pe.Policy)

\* The step left the name of polId in org as it was, and sent nothing about it.
Untouched(org, polId) ==
    /\ MessagesAbout(eventChannel', org, GetId(polId)) = {}
    /\ IF hasBusinessPolicy(OrgPolicies, org, GetId(polId))
       THEN /\ hasBusinessPolicy(OrgPolicies', org, GetId(polId))
            /\ OrgPolicies'[org][GetId(polId)] = OrgPolicies[org][GetId(polId)]
       ELSE ~hasBusinessPolicy(OrgPolicies', org, GetId(polId))

\* The step took in the valid definition pol of polId: a new entry and no message if
\* the name had none, the entry updated and one PolicyChanged message (none if the new
\* policy cannot be serialized) if it had one of another hash.
TakenIn(org, polId, pol) ==
    LET polName == GetId(polId)
        changed == MessagesFor(eventChannel', "CHANGED_POLICY", org, polName)
    IN /\ hasBusinessPolicy(OrgPolicies', org, polName)
       /\ OrgPolicies'[org][polName] = NewBusinessPolicyEntry(pol, polId)
       /\ MessagesAbout(eventChannel', org, polName) = changed
       /\ Cardinality(changed) =
             IF /\ hasBusinessPolicy(OrgPolicies, org, polName)
                /\ OrgPolicies[org][polName].Hash # hashPolicy(pol)
                /\ CanMarshal(GenPolicyFromBusinessPolicy(pol, polId))
             THEN 1 ELSE 0

\* C12: when UpdatePolicies returns because a definition failed validation or
\* conversion (or could not be hashed), what the call did before stays done and the
\* rest is not done.  Some served definition is such a one; every entry that was to go
\* is gone, with its message; every served definition that is valid was either taken
\* in, with its message, or not processed, its name left as it was; and one that is
\* not has no message, and has left its name as it was or, if it is invalid and had an
\* entry, the entry as UpdateEntry leaves it.
C12_AbortWithoutRollback ==
    [][(IsUpdatePolicies' /\ err' \in {"hash", "update", "create"}) =>
         LET org == call'.org
             defs == call'.definedPolicies
             served == { polId \in DOMAIN defs :
                           serveBusinessPolicy(ServedPolicies, org, GetId(polId)) }
         IN /\ \E polId \in served : NewBusinessPolicyEntryFails(defs[polId])
            /\ \A polName \in DOMAIN OrgPolicies[org] :
                  Stale(org, polName, defs) => RemovedWithMessage(org, polName)
            /\ \A polId \in served :
                  IF ~NewBusinessPolicyEntryFails(defs[polId])
                  THEN TakenIn(org, polId, defs[polId]) \/ Untouched(org, polId)
                  ELSE \/ Untouched(org, polId)
                       \/ /\ CanHash(defs[polId])
                          /\ MessagesAbout(eventChannel', org, GetId(polId)) = {}
                          /\ hasBusinessPolicy(OrgPolicies, org, GetId(polId))
                          /\ hasBusinessPolicy(OrgPolicies', org, GetId(polId))
                          /\ OrgPolicies'[org][GetId(polId)] =
                                UpdateEntry(OrgPolicies[org][GetId(polId)], defs[polId],
                                            polId, hashPolicy(defs[polId]))]_vars

\* C12's case: an UpdatePolicies call returned a validation error after it had removed
\* an entry or replaced one, and sent the message of it.
C12_Witness ==
    /\ IsUpdatePolicies
    /\ err \in {"update", "create"}
    /\ \E i \in DOMAIN eventChannel :
          /\ eventChannel[i].type = "CHANGED_POLICY"
          /\ hasBusinessPolicy(OrgPolicies, call.org, GetId(eventChannel[i].name))
          /\ OrgPolicies[call.org][GetId(eventChannel[i].name)].Policy.Body
                = call.definedPolicies[eventChannel[i].name]

\* C13: a SetCurrentBusinessPolicies call with the served table of the
\* SetCurrentBusinessPolicies call just before it leaves the served table, the orgs and
\* every entry as that call left them, and sends no message.
C13_SetCurrentIdempotent ==
    [][(IsSetCurrentBusinessPolicies' /\ repeated') =>
         /\ ServedPolicies' = ServedPolicies
         /\ OrgPolicies' = OrgPolicies
         /\ eventChannel' = << >>
         /\ err' = "nil"]_vars

\* C13's case: SetCurrentBusinessPolicies was called twice in a row with the same
\* table, which serves an org that has an entry.
C13_Witness ==
    /\ IsSetCurrentBusinessPolicies
    /\ repeated
    /\ \E org \in DOMAIN OrgPolicies : DOMAIN OrgPolicies[org] # {}

\* The triplets of the served table that serve the policy polName of polOrg.
Matching(polOrg, polName) ==
    { k \in DOMAIN ServedPolicies :
        /\ ServedPolicies[k].BusinessPolOrg = polOrg
        /\ ServedPolicies[k].BusinessPol \in {polName, WILDCARD} }

\* The node org GetServedNodeOrgs is to return for the triplet sp.
NodeOrgFor(sp) == IF sp.NodeOrg = "" THEN sp.BusinessPolOrg ELSE sp.NodeOrg

\* C14: what GetServedNodeOrgs(polOrg, polName) returns has one node org for each
\* triplet of the served table that serves the policy (by name or by wildcard) and
\* nothing else: every value is in it as many times as matching triplets have it for
\* node org, the policy org standing for an empty node org.
C14_NodeOrgsOfMatchingTriplets ==
    call.op = "GetServedNodeOrgs" =>
       LET matching == Matching(call.polOrg, call.polName)
           values == { call.node_orgs[i] : i \in DOMAIN call.node_orgs }
                        \cup { NodeOrgFor(ServedPolicies[k]) : k \in matching }
       IN /\ Len(call.node_orgs) = Cardinality(matching)
          /\ \A v \in values :
                Cardinality({ i \in DOMAIN call.node_orgs : call.node_orgs[i] = v })
                  = Cardinality({ k \in matching : NodeOrgFor(ServedPolicies[k]) = v })

\* C14's case: GetServedNodeOrgs returned two node orgs, one of them the policy org of
\* a triplet without node org, the other the node org a triplet names.
C14_Witness ==
    /\ call.op = "GetServedNodeOrgs"
    /\ Len(call.node_orgs) = 2
    /\ \E i \in DOMAIN call.node_orgs : call.node_orgs[i] = call.polOrg
    /\ \E i \in DOMAIN call.node_orgs : call.node_orgs[i] # call.polOrg

\* An UpdatePolicies call for an org the manager has, with definitions, returns no
\* error.
UpdateSucceeds ==
    /\ IsUpdatePolicies'
    /\ err' = "nil"
    /\ hasOrg(OrgPolicies, call'.org)
    /\ DOMAIN call'.definedPolicies # {}

\* After the step every entry of org has a name that is served and that a definition
\* of defs has, and no definition of defs whose name is not served has an entry.
OnlyServedAndDefined(org, defs) ==
    /\ hasOrg(OrgPolicies', org)
    /\ \A polName \in DOMAIN OrgPolicies'[org] :
          /\ serveBusinessPolicy(ServedPolicies, org, polName)
          /\ polName \in DefinedNames(defs)
    /\ \A polId \in DOMAIN defs :
          ~serveBusinessPolicy(ServedPolicies, org, GetId(polId))
          => ~hasBusinessPolicy(OrgPolicies', org, GetId(polId))

\* C15 as stated: after UpdatePolicies(org, defs) with definitions returns no error,
\* every entry of org has a name that is served and defined; every entry cached before
\* the call that has not was removed with exactly one PolicyDeleted message; and no
\* entry was made for a definition whose name is not served.
C15_AsStated ==
    [][UpdateSucceeds =>
         /\ OnlyServedAndDefined(call'.org, call'.definedPolicies)
         /\ \A polName \in DOMAIN OrgPolicies[call'.org] :
               Stale(call'.org, polName, call'.definedPolicies)
               => /\ ~hasBusinessPolicy(OrgPolicies', call'.org, polName)
                  /\ Cardinality(MessagesFor(eventChannel', "DELETED_POLICY",
                                             call'.org, polName)) = 1]_vars

\* C15 amended: the same, with exactly one PolicyDeleted message for a removed entry
\* whose policy can be serialized and none for one whose policy cannot.
C15_PrunePostcondition ==
    [][UpdateSucceeds =>
         /\ OnlyServedAndDefined(call'.org, call'.definedPolicies)
         /\ \A polName \in DOMAIN OrgPolicies[call'.org] :
               Stale(call'.org, polName, call'.definedPolicies)
               => RemovedWithMessage(call'.org, polName)]_vars

\* C15's case: an UpdatePolicies call with definitions returned no error, removed an
\* entry with its PolicyDeleted message and kept or made another.
C15_Witness ==
    /\ IsUpdatePolicies
    /\ err = "nil"
    /\ DOMAIN call.definedPolicies # {}
    /\ hasOrg(OrgPolicies, call.org)
    /\ DOMAIN OrgPolicies[call.org] # {}
    /\ \E i \in DOMAIN eventChannel :
          /\ eventChannel[i].type = "DELETED_POLICY"
          /\ ~hasBusinessPolicy(OrgPolicies, call.org, GetId(eventChannel[i].name))

\* The entry of (org, polName) lost a service policy in the step and is still there.
LosesServicePolicy(org, polName) ==
    /\ hasBusinessPolicy(OrgPolicies, org, polName)
    /\ hasBusinessPolicy(OrgPolicies', org, polName)
    /\ DOMAIN OrgPolicies[org][polName].ServicePolicies
          \ DOMAIN OrgPolicies'[org][polName].ServicePolicies # {}

\* The step is an UpdatePolicies call that replaced the internal policy of the entry
\* of (org, polName).
ReplacesContent(org, polName) ==
    /\ IsUpdatePolicies'
    /\ call'.org = org
    /\ OrgPolicies'[org][polName].Policy # OrgPolicies[org][polName].Policy

\* C18: when UpdatePolicies replaces the content of an entry and sends PolicyChanged,
\* the entry has no service policy afterwards; and an entry that stays loses a service
\* policy only in a DeleteAllServicePolicies call or in an UpdatePolicies call that
\* replaces its content.
C18_ServicePoliciesGoWithContent ==
    [][\A org \in Orgs, polName \in PolicyNames :
          /\ (/\ IsUpdatePolicies'
              /\ call'.org = org
              /\ hasBusinessPolicy(OrgPolicies', org, polName)
              /\ MessagesFor(eventChannel', "CHANGED_POLICY", org, polName) # {})
             => OrgPolicies'[org][polName].ServicePolicies = NoMap
          /\ LosesServicePolicy(org, polName)
             => \/ call'.op = "DeleteAllServicePolicies"
                \/ ReplacesContent(org, polName)]_vars

\* C19: every entry's stored hash is the hash of the definition its stored internal
\* policy was converted from.
C19_HashPairedWithContent ==
    \A org \in DOMAIN OrgPolicies :
       \A polName \in DOMAIN OrgPolicies[org] :
          OrgPolicies[org][polName].Hash = hashPolicy(OrgPolicies[org][polName].Policy.Body)

\* polId is the only id of defs with its name.
OnlyIdOfItsName(defs, polId) ==
    \A other \in DOMAIN defs : GetId(other) = GetId(polId) => other = polId

\* C20: when an UpdatePolicies call with definitions returns no error, the entry of
\* every definition whose name is served (and that no other definition shares) holds
\* the conversion of that definition.
C20_SuccessLeavesCacheCurrent ==
    [][UpdateSucceeds =>
         \A polId \in DOMAIN call'.definedPolicies :
            (/\ serveBusinessPolicy(ServedPolicies, call'.org, GetId(polId))
             /\ OnlyIdOfItsName(call'.definedPolicies, polId))
            => /\ hasBusinessPolicy(OrgPolicies', call'.org, GetId(polId))
               /\ OrgPolicies'[call'.org][GetId(polId)].Policy.Body
                     = call'.definedPolicies[polId]]_vars

====
